---- MODULE Spec2Model ----
(***************************************************************************)
(* MongoDBQueryEngine: the natural-language query engine of src/test.py    *)
(* (the extended engine, with trend analysis and date handling) and of     *)
(* src/main1.py (the basic engine).  The variable engine says which of the *)
(* the two files a behaviour follows.                                      *)
(*                                                                         *)
(* Abstractions.  A collection of the database is its document count; the  *)
(* documents of "portcalls" carry a datetime field, those of the other     *)
(* collections do not.  An LLM response is a sequence of tokens (a fence,  *)
(* the word json, whitespace, one complete JSON document, prose) and the   *)
(* JSON document's value is a separate input.  Strings returned to the     *)
(* caller are records naming the message and its parameters.  The database *)
(* calls with fixed arguments (list_collection_names, count_documents({}), *)
(* find().limit(100)) are taken to succeed; the calls that run a query     *)
(* written by the LLM may raise.                                           *)
(*                                                                         *)
(* Spec drives the engine through ask.  SpecExec, SpecGen, SpecFix and     *)
(* SpecDate call one method each (execute_query, generate_mongodb_query,   *)
(* _fix_date_formats, _handle_date_in_query) on every input of a bounded   *)
(* set, with the input in query_data and the value returned in result.     *)
(* SpecQA is MongoDBQA of src/main.py, a class of its own that shares only *)
(* the name chat_history with the engine.                                  *)
(***************************************************************************)
EXTENDS Integers, Sequences, FiniteSets, TLC

VARIABLES
    engine,              \* "test" (src/test.py) or "main1" (src/main1.py)
    db,                  \* the database: name -> [exists, count]
    collections,         \* self.collections: the schema cache, a dict
    current_collection,  \* self.current_collection
    chat_history,        \* self.chat_history
    pc,                  \* where the running ask() stands; "idle" between calls
    call,                \* the call in progress or last finished: [op, name, question]
    response_text,       \* the LLM response of the running ask()
    query_data,          \* what generate_mongodb_query returned
    result,              \* what execute_query returned
    dbcall,              \* the last query execute_query sent to the database
    trace,               \* the stages the running (or last) call started, in order
    ret,                 \* what the last call returned or raised
    llm_invoked          \* whether self.llm.invoke has ever been called

vars == <<engine, db, collections, current_collection, chat_history, pc, call,
          response_text, query_data, result, dbcall, trace, ret, llm_invoked>>

----------------------------------------------------------------------------
(* Bounds of the model. *)

\* collections may hold up to FindLimit + MaxExtra documents
MaxExtra == 1
\* an aggregation pipeline has at most MaxStages stages
MaxStages == 2
\* an LLM response has at most MaxResp tokens; inside ask, where the rest of
\* the engine's state varies too, MaxAskResp tokens and MaxAskStages stages
MaxResp == 5
MaxAskResp == 3
MaxAskStages == 1

(* Constants of the program. *)

\* cursor.limit(50)
FindLimit == 50
\* query.append({"$limit": 50})
AggLimit == 50
\* if len(results) > 5: results = results[:5]
ShowLimit == 5

None == "None"

Engines == {"test", "main1"}

Names == {"portcalls", "vessels", "ghost"}

\* the collections whose documents hold a datetime field
DatedNames == {"portcalls"}

\* the collection __init__ analyses
InitialCollection == "portcalls"

\* the sizes a collection may have
DocCounts == {0, FindLimit + MaxExtra}

\* the numbers of documents a query may match
MatchCounts == {0, 1, FindLimit, FindLimit + MaxExtra}

Min(a, b) == IF a <= b THEN a ELSE b

FirstN(n) == [i \in 1..n |-> i]

----------------------------------------------------------------------------
(* The database, as pymongo shows it. *)

\* db.list_collection_names()
list_collection_names == {n \in Names : db[n].exists}

\* db[name].count_documents({}): 0 for a collection that does not exist
count_documents(name) == IF db[name].exists THEN db[name].count ELSE 0

\* whether the sampled documents hold a datetime value
SampleHasDate(name) == name \in DatedNames /\ count_documents(name) > 0

----------------------------------------------------------------------------
(* Values returned and raised. *)

NoEntries == {}

Returned(msg, name, count, entries, items) ==
    [kind |-> "return", exc |-> "", msg |-> msg, name |-> name, count |-> count,
     entries |-> entries, items |-> items]

Raised(exc, msg, name) ==
    [kind |-> "raise", exc |-> exc, msg |-> msg, name |-> name, count |-> 0,
     entries |-> NoEntries, items |-> <<>>]

NoRet ==
    [kind |-> "none", exc |-> "", msg |-> "", name |-> None, count |-> 0,
     entries |-> NoEntries, items |-> <<>>]

\* ask's  except Exception as e: return f"Error: {str(e)}"
ErrorString(exc, msg) ==
    [kind |-> "return", exc |-> exc, msg |-> "Error: " \o msg, name |-> None,
     count |-> 0, entries |-> NoEntries, items |-> <<>>]

NoCall == [op |-> "none", name |-> None, question |-> <<>>]

NoQueryData ==
    [kind |-> "none", query_type |-> "", query |-> [t |-> "missing", field |-> FALSE,
     date |-> FALSE, stages |-> <<>>]]

NoResult == [count |-> 0, results |-> <<>>, keys |-> {}]

NoDbCall == [op |-> "none", pipeline |-> <<>>, limit |-> 0, matched |-> 0]

----------------------------------------------------------------------------
(* The schema cache. *)

Cached == DOMAIN collections

\* _analyze_collection: the metadata stored for collection_name
Analysis(name) ==
    [total_documents |-> count_documents(name),
     date_fields |-> engine = "test" /\ SampleHasDate(name)]

\* self.collections[collection_name] = {...}
_analyze_collection(name) ==
    [n \in Cached \cup {name} |-> IF n = name THEN Analysis(name) ELSE collections[n]]

\* list_collections: one entry "<name> (<count> documents)" per cached name
list_collections == {<<n, collections[n].total_documents>> : n \in Cached}

----------------------------------------------------------------------------
(* Construction. *)

DbStates == [exists : BOOLEAN, count : DocCounts]

InitialCurrentAnalysed == InitialCollection

\* self.current_collection = None
InitialCurrent == None

Init ==
    /\ engine \in Engines
    /\ db \in {d \in [Names -> DbStates] :
                 /\ ~d["ghost"].exists
                 /\ d["vessels"].exists
                 /\ \A n \in Names : ~d[n].exists => d[n].count = 0}
    /\ collections = [n \in {InitialCollection} |-> Analysis(n)]
    /\ current_collection = InitialCurrent
    /\ chat_history = <<>>
    /\ pc = "idle"
    /\ call = NoCall
    /\ response_text = <<>>
    /\ query_data = NoQueryData
    /\ result = NoResult
    /\ dbcall = NoDbCall
    /\ trace = <<>>
    /\ ret = NoRet
    /\ llm_invoked = FALSE

----------------------------------------------------------------------------
(* The LLM response and the extraction of its JSON. *)

\* three backticks
Fence == "FENCE"
JsonTag == "json"
Space == " "
JsonDoc == "{...}"
Prose == "text"

Tokens == {Fence, JsonTag, Space, JsonDoc, Prose}

ResponsesUpTo(n) == UNION {[1..k -> Tokens] : k \in 0..n}

MinOf(S) == CHOOSE x \in S : \A y \in S : x <= y

MaxOf(S) == CHOOSE x \in S : \A y \in S : y <= x

FenceIdx(text) == {i \in 1..Len(text) : text[i] = Fence}

\* re.search(json_pattern, response_text) finds a match: an opening fence, an
\* optional json, the lazy group 1, a closing fence
HasBlock(text) == Cardinality(FenceIdx(text)) >= 2

OpenFence(text) == MinOf(FenceIdx(text))

\* the lazy group stops at the first fence after the opening one
CloseFence(text) == MinOf(FenceIdx(text) \ {OpenFence(text)})

\* past the opening fence and (?:json)?
AfterTag(text) ==
    IF text[OpenFence(text) + 1] = JsonTag
    THEN OpenFence(text) + 2
    ELSE OpenFence(text) + 1

\* past the greedy \s* too: where group 1 starts
GroupStart(text) ==
    MinOf({i \in AfterTag(text)..CloseFence(text) : text[i] # Space})

\* where group 1 ends: the trailing \s* is left out of the lazy group
GroupEnd(text) ==
    LET inside == {i \in GroupStart(text)..(CloseFence(text) - 1) : text[i] # Space}
    IN  IF inside = {} THEN GroupStart(text) - 1 ELSE MaxOf(inside)

\* match.group(1)
Group1(text) == SubSeq(text, GroupStart(text), GroupEnd(text))

IsNotSpace(t) == t # Space

\* json.loads(s) succeeds: one JSON document, whitespace around it allowed
JsonLoads(s) == SelectSeq(s, IsNotSpace) = <<JsonDoc>>

----------------------------------------------------------------------------
(* The JSON value of the document and the queries it may hold. *)

Missing == "<missing>"
JsonNull == "<null>"
JsonNumber == "<number>"

\* the values of "query_type": strings, an absent key, null, a number
QueryTypes ==
    {"find", "FIND", "aggregate", "Aggregate", "count", "distinct", "update",
     Missing, JsonNull, JsonNumber}

\* str.lower()
Lower(s) ==
    CASE s = "FIND" -> "find"
      [] s = "Aggregate" -> "aggregate"
      [] OTHER -> s

Stage(isdict, op, val) == [dict |-> isdict, op |-> op, val |-> val]

MatchStage == Stage(TRUE, "$match", "doc")
Limit10 == Stage(TRUE, "$limit", "10")
Limit50 == Stage(TRUE, "$limit", "50")
LimitNull == Stage(TRUE, "$limit", "None")
LimitDate == Stage(TRUE, "$limit", "new Date()")
StringStage == Stage(FALSE, "", "text")
DateTimeValue == Stage(FALSE, "", "datetime")

StageInputs == {MatchStage, Limit10, Limit50, LimitNull, LimitDate, StringStage}

PipelinesUpTo(n) == UNION {[1..k -> StageInputs] : k \in 0..n}

Query(t, field, date, stages) ==
    [t |-> t, field |-> field, date |-> date, stages |-> stages]

\* "query": an absent key, a dict (with or without a 'field' key, with or
\* without a date string such as "new Date()" among its values), a list
QueriesUpTo(n) ==
    {Query("missing", FALSE, FALSE, <<>>)}
    \cup {Query("dict", f, d, <<>>) : f \in BOOLEAN, d \in BOOLEAN}
    \cup {Query("list", FALSE, FALSE, p) : p \in PipelinesUpTo(n)}

\* the value of the JSON document: an object, or a number, true, false or
\* null ("scalar"), an array or a string, with or without "query" as an
\* element of the array or as a part of the string
QueryDatasUpTo(n) ==
    [kind : {"dict"}, query_type : QueryTypes, query : QueriesUpTo(n)]
    \cup [kind : {"scalar", "list", "string", "list of query", "string of query"},
          query_type : {Missing},
          query : {Query("missing", FALSE, FALSE, <<>>)}]

----------------------------------------------------------------------------
(* generate_mongodb_query, from the LLM response on. *)

Outcome(exc, msg, value) == [exc |-> exc, msg |-> msg, value |-> value]

\* "query" in query_data raises TypeError for a value that is no container
QueryKeyTestRaises(value) == value.kind = "scalar"

\* "query" in query_data is true of an array or a string, and query_data["query"]
\* then raises TypeError
QueryItemRaises(value) == value.kind \in {"list of query", "string of query"}

GenerateFencedFallback(eng, text, value) ==
    IF ~JsonLoads(Group1(text))
    THEN IF JsonLoads(text)
         THEN Outcome("", "", value)
         ELSE Outcome("ValueError", "Could not extract valid JSON from response", NoQueryData)
    ELSE Outcome("", "", value)

\* the branch taken when the pattern matched
GenerateFenced(eng, text, value) ==
    IF ~JsonLoads(Group1(text))
    THEN Outcome("ValueError", "Generated invalid JSON", NoQueryData)
    ELSE IF eng = "test" /\ QueryKeyTestRaises(value)
    THEN Outcome("TypeError", "argument is not iterable", NoQueryData)
    ELSE IF eng = "test" /\ QueryItemRaises(value)
    THEN Outcome("TypeError", "indices must be integers", NoQueryData)
    ELSE Outcome("", "", value)

\* the branch taken when it did not
GenerateUnfenced(eng, text, value) ==
    IF ~JsonLoads(text)
    THEN Outcome("ValueError", "Could not extract valid JSON from response", NoQueryData)
    ELSE IF eng = "test" /\ (QueryKeyTestRaises(value) \/ QueryItemRaises(value))
    THEN Outcome("ValueError", "Could not extract valid JSON from response", NoQueryData)
    ELSE Outcome("", "", value)

ExtractJson(eng, text, value) ==
    IF HasBlock(text)
    THEN GenerateFenced(eng, text, value)
    ELSE GenerateUnfenced(eng, text, value)

----------------------------------------------------------------------------
(* execute_query. *)

\* _handle_date_in_query on one stage of a list: a dict holding a date string
\* is replaced by the date
HandleDateStage(s) ==
    IF s.dict /\ s.val = "new Date()" THEN DateTimeValue ELSE s

\* _handle_date_in_query(query)
_handle_date_in_query(q) ==
    CASE q.t = "dict" /\ q.date -> Query("datetime", FALSE, FALSE, <<>>)
      [] q.t = "list" -> Query("list", FALSE, FALSE,
                               [i \in 1..Len(q.stages) |-> HandleDateStage(q.stages[i])])
      [] OTHER -> q

\* query_data.get("query", {}), then the date handling of src/test.py
QueryOf(eng, qd) ==
    LET q == IF qd.query.t = "missing" THEN Query("dict", FALSE, FALSE, <<>>) ELSE qd.query
    IN  IF eng = "test" THEN _handle_date_in_query(q) ELSE q

StageHasLimitAnyValue(s) == s.dict /\ s.op = "$limit"

\* stage.get("$limit") is not None, for a stage that is a dict
StageHasLimit(s) == s.dict /\ s.op = "$limit" /\ s.val # "None"

\* any(stage.get("$limit") is not None for stage in query if isinstance(stage, dict))
has_limit(p) == \E i \in 1..Len(p) : StageHasLimit(p[i])

AppendedLimit == Limit50

\* if not has_limit: query.append({"$limit": 50})
ExecutedPipeline(p) == IF has_limit(p) THEN p ELSE Append(p, AppendedLimit)

FindNoLimit(matched) == FirstN(matched)

\* list(cursor.limit(50))
FindResults(matched) == FirstN(Min(matched, FindLimit))

\* list(collection.aggregate(query)): the appended limit caps the documents
AggregateResults(p, matched) ==
    IF has_limit(p) THEN FirstN(matched) ELSE FirstN(Min(matched, AggLimit))

ExecOut(exc, msg, res, dbc) == [exc |-> exc, msg |-> msg, result |-> res, dbcall |-> dbc]

\* except Exception as e: raise RuntimeError(f"Error executing query: {str(e)}")
Wrapped(exc, msg, dbc) ==
    ExecOut("RuntimeError", "Error executing query: " \o msg, NoResult, dbc)

\* a call of the collection: its pipeline or limit, and the number of documents
\* the database holds for it
DbCall(op, p, limit, matched) ==
    [op |-> op, pipeline |-> p, limit |-> limit, matched |-> matched]

DbError(dbc) == Wrapped("OperationFailure", "database error", dbc)

Docs(seq, keys) == [count |-> Len(seq), results |-> seq, keys |-> keys]

\* the body of the try block
TryBlock(query_type, q, matched, dbok) ==
    CASE query_type = "find" ->
           IF q.t # "dict"
           THEN Wrapped("TypeError", "filter must be an instance of dict", NoDbCall)
           ELSE IF ~dbok THEN DbError(DbCall("find", <<>>, FindLimit, matched))
           ELSE ExecOut("", "", Docs(FindResults(matched), {"count", "results", "explanation"}),
                        DbCall("find", <<>>, FindLimit, matched))
      [] query_type = "aggregate" ->
           IF q.t # "list"
           THEN Wrapped("AttributeError", "object has no attribute 'append'", NoDbCall)
           ELSE IF ~dbok THEN DbError(DbCall("aggregate", ExecutedPipeline(q.stages), 0, matched))
           ELSE ExecOut("", "", Docs(AggregateResults(q.stages, matched),
                                     {"count", "results", "explanation"}),
                        DbCall("aggregate", ExecutedPipeline(q.stages), 0, matched))
      [] query_type = "count" ->
           IF q.t # "dict"
           THEN Wrapped("TypeError", "filter must be an instance of dict", NoDbCall)
           ELSE IF ~dbok THEN DbError(DbCall("count_documents", <<>>, 0, matched))
           ELSE ExecOut("", "", [count |-> matched, results |-> <<>>,
                                 keys |-> {"count", "explanation"}],
                        DbCall("count_documents", <<>>, 0, matched))
      [] query_type = "distinct" ->
           IF q.t # "dict"
           THEN Wrapped("AttributeError", "object has no attribute 'get'", NoDbCall)
           ELSE IF ~q.field
           THEN Wrapped("ValueError", "'field' is required for distinct queries", NoDbCall)
           ELSE IF ~dbok THEN DbError(DbCall("distinct", <<>>, 0, matched))
           ELSE ExecOut("", "", Docs(FirstN(matched), {"count", "values", "explanation"}),
                        DbCall("distinct", <<>>, 0, matched))
      [] OTHER -> Wrapped("ValueError", "Unsupported query type", NoDbCall)

\* query_data.get("query_type", "")
QueryTypeOf(qd) == IF qd.query_type = Missing THEN "" ELSE qd.query_type

\* whether the value has a lower() method
IsString(v) == v \notin {JsonNull, JsonNumber}

\* execute_query(query_data); query_data.get("query_type", "").lower() raises
\* AttributeError, outside the try block, for a value that is no string
execute_query(eng, cur, qd, matched, dbok) ==
    IF cur = None
    THEN ExecOut("ValueError", "No collection selected", NoResult, NoDbCall)
    ELSE IF qd.kind # "dict"
    THEN ExecOut("AttributeError", "object has no attribute 'get'", NoResult, NoDbCall)
    ELSE IF ~IsString(QueryTypeOf(qd))
    THEN ExecOut("AttributeError", "object has no attribute 'lower'", NoResult, NoDbCall)
    ELSE TryBlock(Lower(QueryTypeOf(qd)), QueryOf(eng, qd), matched, dbok)

----------------------------------------------------------------------------
(* ask: the built-in commands. *)

Idle == pc = "idle"

ResetPipeline ==
    /\ response_text' = <<>>
    /\ query_data' = NoQueryData
    /\ result' = NoResult
    /\ dbcall' = NoDbCall

\* set_current_collection(name) raising ValueError
UseCollectionFails(name) ==
    /\ name \notin Cached
    /\ name \notin list_collection_names
    /\ ret' = Raised("ValueError", "Collection does not exist in the database", name)
    /\ trace' = <<"set_current_collection", "db.list_collection_names">>
    /\ UNCHANGED <<collections, current_collection>>

ReportedLiveCount(cache, name) == count_documents(name)

\* the count in the message: self.collections[collection_name]['total_documents']
ReportedCount(cache, name) == cache[name].total_documents

UseCollectionReanalysing(name) ==
    /\ name \in Cached \/ name \in list_collection_names
    /\ collections' = _analyze_collection(name)
    /\ current_collection' = name
    /\ ret' = Returned("Current collection set to", name,
                       ReportedCount(collections', name), NoEntries, <<>>)
    /\ trace' = IF name \in Cached
                THEN <<"set_current_collection">>
                ELSE <<"set_current_collection", "db.list_collection_names",
                       "_analyze_collection">>

\* set_current_collection(name) returning its message
UseCollectionOk(name) ==
    /\ name \in Cached \/ name \in list_collection_names
    /\ collections' = IF name \in Cached THEN collections ELSE _analyze_collection(name)
    /\ current_collection' = name
    /\ ret' = Returned("Current collection set to", name,
                       ReportedCount(collections', name), NoEntries, <<>>)
    /\ trace' = IF name \in Cached
                THEN <<"set_current_collection">>
                ELSE <<"set_current_collection", "db.list_collection_names",
                       "_analyze_collection">>

\* ask("use collection <name>")
UseCollection(name) ==
    /\ Idle
    /\ call' = [op |-> "use", name |-> name, question |-> <<>>]
    /\ \/ UseCollectionOk(name)
       \/ UseCollectionFails(name)
    /\ ResetPipeline
    /\ UNCHANGED <<engine, db, chat_history, pc, llm_invoked>>

\* ask("list collections")
ListCollections ==
    /\ Idle
    /\ call' = [op |-> "list", name |-> None, question |-> <<>>]
    /\ ret' = Returned("Available collections", None, 0, list_collections, <<>>)
    /\ trace' = <<"list_collections">>
    /\ ResetPipeline
    /\ UNCHANGED <<engine, db, collections, current_collection, chat_history, pc,
                   llm_invoked>>

\* ask("show schema") and ask("describe collection")
ShowSchema ==
    /\ Idle
    /\ call' = [op |-> "schema", name |-> None, question |-> <<>>]
    /\ IF current_collection = None
       THEN /\ ret' = Returned("No collection selected. Use 'use collection [name]' first.",
                               None, 0, NoEntries, <<>>)
            /\ trace' = <<>>
       ELSE /\ ret' = Returned("Schema for", current_collection, 0, NoEntries, <<>>)
            /\ trace' = <<"get_collection_schema">>
    /\ ResetPipeline
    /\ UNCHANGED <<engine, db, collections, current_collection, chat_history, pc,
                   llm_invoked>>

StatsRefreshingCache ==
    /\ Idle
    /\ call' = [op |-> "stats", name |-> None, question |-> <<>>]
    /\ current_collection # None
    /\ ret' = Returned("Statistics for collection", current_collection,
                       count_documents(current_collection), NoEntries, <<>>)
    /\ trace' = <<"get_collection_stats", "db.count_documents", "_format_stats">>
    /\ collections' = _analyze_collection(current_collection)
    /\ ResetPipeline
    /\ UNCHANGED <<engine, db, current_collection, chat_history, pc, llm_invoked>>

\* ask("stats") and ask("collection stats")
Stats ==
    /\ Idle
    /\ call' = [op |-> "stats", name |-> None, question |-> <<>>]
    /\ IF current_collection = None
       THEN /\ ret' = Returned("No collection selected. Use 'use collection [name]' first.",
                               None, 0, NoEntries, <<>>)
            /\ trace' = <<>>
       ELSE /\ ret' = Returned("Statistics for collection", current_collection,
                               count_documents(current_collection), NoEntries, <<>>)
            /\ trace' = <<"get_collection_stats", "db.count_documents", "_format_stats">>
    /\ ResetPipeline
    /\ UNCHANGED <<engine, db, collections, current_collection, chat_history, pc,
                   llm_invoked>>

----------------------------------------------------------------------------
(* ask: a natural-language question. *)

\* a question is its text, character by character
UpperCase ==
    <<"A", "B", "C", "D", "E", "F", "G", "H", "I", "J", "K", "L", "M",
      "N", "O", "P", "Q", "R", "S", "T", "U", "V", "W", "X", "Y", "Z">>

LowerCase ==
    <<"a", "b", "c", "d", "e", "f", "g", "h", "i", "j", "k", "l", "m",
      "n", "o", "p", "q", "r", "s", "t", "u", "v", "w", "x", "y", "z">>

LowerChar(c) ==
    IF \E i \in 1..Len(UpperCase) : UpperCase[i] = c
    THEN LowerCase[CHOOSE i \in 1..Len(UpperCase) : UpperCase[i] = c]
    ELSE c

\* question.lower()
lower(text) == [i \in 1..Len(text) |-> LowerChar(text[i])]

\* keyword in text
Contains(keyword, text) ==
    \E i \in 1..(Len(text) - Len(keyword) + 1) :
        SubSeq(text, i, i + Len(keyword) - 1) = keyword

OverTime == <<"O", "v", "e", "r", " ", "T", "i", "m", "e">>

Overtime == <<"O", "v", "e", "r", "t", "i", "m", "e">>

TRENDS == <<"T", "R", "E", "N", "D", "S">>

\* the questions asked: "Over Time", "Overtime" and "TRENDS"
Questions == {OverTime, Overtime, TRENDS}

trend_keywords ==
    {<<"t", "r", "e", "n", "d">>,
     <<"o", "v", "e", "r", " ", "t", "i", "m", "e">>,
     <<"m", "o", "n", "t", "h", "l", "y">>,
     <<"w", "e", "e", "k", "l", "y">>,
     <<"d", "a", "i", "l", "y">>,
     <<"c", "o", "m", "p", "a", "r", "i", "s", "o", "n">>,
     <<"h", "i", "s", "t", "o", "r", "i", "c", "a", "l">>,
     <<"h", "i", "s", "t", "o", "r", "y">>,
     <<"p", "a", "t", "t", "e", "r", "n">>}

is_trend_question_case_sensitive(question) ==
    \E keyword \in trend_keywords : Contains(keyword, question)

\* any(keyword in question.lower() for keyword in trend_keywords)
is_trend_question(question) ==
    \E keyword \in trend_keywords : Contains(keyword, lower(question))

Question(text) == [op |-> "question", name |-> None, question |-> text]

\* if not self.current_collection: return "Please select a collection first ..."
AskNoCollection ==
    /\ Idle
    /\ current_collection = None
    /\ \E text \in Questions : call' = Question(text)
    /\ ret' = Returned("Please select a collection first using 'use collection [name]'",
                       None, 0, NoEntries, <<>>)
    /\ trace' = <<>>
    /\ ResetPipeline
    /\ UNCHANGED <<engine, db, collections, current_collection, chat_history, pc,
                   llm_invoked>>

\* the first stage ask enters in its try block
FirstStage == IF engine = "test" THEN "analytical" ELSE "generate"

\* ask(question) reaches its try block
AskQuestion ==
    /\ Idle
    /\ current_collection # None
    /\ \E text \in Questions : call' = Question(text)
    /\ pc' = FirstStage
    /\ trace' = <<>>
    /\ ret' = NoRet
    /\ ResetPipeline
    /\ UNCHANGED <<engine, db, collections, current_collection, chat_history, llm_invoked>>

\* ask returns or raises: its locals are gone
Finish ==
    /\ pc' = "idle"
    /\ ResetPipeline

\* process_analytical_question takes the trend branch
TakesTrendBranch ==
    /\ is_trend_question(call.question)
    /\ collections[current_collection].date_fields

\* analytical_result = self.process_analytical_question(question)
ProcessAnalytical ==
    /\ pc = "analytical"
    /\ trace' = Append(trace, "process_analytical_question")
    /\ IF TakesTrendBranch
       THEN /\ pc' = "idle"
            /\ ret' = Returned("Trend analysis of", current_collection, 0, NoEntries, <<>>)
       ELSE /\ pc' = "generate"
            /\ UNCHANGED ret
    /\ UNCHANGED <<engine, db, collections, current_collection, chat_history, call,
                   response_text, query_data, result, dbcall, llm_invoked>>

\* where ask goes after generate_mongodb_query
AfterGenerateAlways(o) == "execute"

AfterGenerate(o) == IF o.exc = "" THEN "execute" ELSE "idle"

\* what ask returns when a stage raised
CaughtReraise(o) == Raised(o.exc, o.msg, None)

Caught(o) == ErrorString(o.exc, o.msg)

LlmError == Outcome("LLMError", "the LLM call failed", NoQueryData)

\* the JSON documents the LLM answers with inside ask
AskQueryDatas == QueryDatasUpTo(MaxAskStages)

\* what generate_mongodb_query may give ask: the LLM call raises, or its
\* response is any of the bounded texts holding any of the bounded documents
GenerateOutcomes ==
    [eng \in Engines |->
        {LlmError} \cup
        {ExtractJson(eng, text, value) :
            text \in ResponsesUpTo(MaxAskResp), value \in AskQueryDatas}]

\* query_data = self.generate_mongodb_query(question)
Generate ==
    /\ pc = "generate"
    /\ trace' = trace \o <<"generate_mongodb_query", "llm.invoke">>
    /\ llm_invoked' = TRUE
    /\ \E o \in GenerateOutcomes[engine] :
         /\ pc' = AfterGenerate(o)
         /\ query_data' = o.value
         /\ ret' = IF o.exc = "" THEN ret ELSE Caught(o)
    /\ UNCHANGED <<engine, db, collections, current_collection, chat_history, call,
                   response_text, result, dbcall>>

AfterExecute(o) == IF o.exc = "" THEN "format" ELSE "idle"

\* the stage and the database call it made, if any
Touched(stage, dbc) ==
    IF dbc.op = "none" THEN <<stage>> ELSE <<stage, "db." \o dbc.op>>

\* result = self.execute_query(query_data)
Execute ==
    /\ pc = "execute"
    /\ \E matched \in {m \in MatchCounts : m <= count_documents(current_collection)},
          dbok \in BOOLEAN :
         LET o == execute_query(engine, current_collection, query_data, matched, dbok)
         IN  /\ pc' = AfterExecute(o)
             /\ trace' = trace \o Touched("execute_query", o.dbcall)
             /\ result' = o.result
             /\ query_data' = IF o.exc = "" THEN query_data ELSE NoQueryData
             /\ ret' = IF o.exc = "" THEN ret ELSE Caught(o)
    /\ UNCHANGED <<engine, db, collections, current_collection, chat_history, call,
                   response_text, dbcall, llm_invoked>>

\* the documents _format_result prints
Shown(res) == SubSeq(res.results, 1, Min(Len(res.results), ShowLimit))

\* _format_result(result, question)
_format_result(res) == Returned("Found results", None, res.count, NoEntries, Shown(res))

\* response = self._format_result(result, question); return response
Format ==
    /\ pc = "format"
    /\ trace' = Append(trace, "_format_result")
    /\ ret' = _format_result(result)
    /\ Finish
    /\ UNCHANGED <<engine, db, collections, current_collection, chat_history, call,
                   llm_invoked>>

----------------------------------------------------------------------------
(* The environment: another client of the database writes to a collection. *)

DbWrite ==
    /\ \E n \in list_collection_names, c \in DocCounts :
         /\ c # db[n].count
         /\ db' = [db EXCEPT ![n].count = c]
    /\ UNCHANGED <<engine, collections, current_collection, chat_history, pc, call,
                   response_text, query_data, result, dbcall, trace, ret, llm_invoked>>

----------------------------------------------------------------------------
(* execute_query and generate_mongodb_query called on their own, on every   *)
(* input of the bounded sets.                                               *)

FullDb ==
    [n \in Names |-> [exists |-> n # "ghost",
                      count |-> IF n = "ghost" THEN 0 ELSE FindLimit + MaxExtra]]

DirectInit(op) ==
    /\ engine \in Engines
    /\ db = FullDb
    /\ collections = [n \in list_collection_names |-> Analysis(n)]
    /\ chat_history = <<>>
    /\ pc = "call"
    /\ call = [op |-> op, name |-> None, question |-> <<>>]
    /\ result = NoResult
    /\ dbcall = NoDbCall
    /\ trace = <<>>
    /\ ret = NoRet
    /\ llm_invoked = FALSE

\* what a direct call gives its caller
DirectRet(exc, msg, res) ==
    IF exc = ""
    THEN Returned("", None, res.count, NoEntries, res.results)
    ELSE Raised(exc, msg, None)

ExecInit ==
    /\ DirectInit("execute_query")
    /\ current_collection \in {None} \cup Cached
    /\ response_text = <<>>
    /\ query_data \in QueryDatasUpTo(MaxStages)

\* execute_query(query_data)
ExecCall ==
    /\ pc = "call"
    /\ call.op = "execute_query"
    /\ \E matched \in MatchCounts, dbok \in BOOLEAN :
         LET o == execute_query(engine, current_collection, query_data, matched, dbok)
         IN  /\ result' = o.result
             /\ dbcall' = o.dbcall
             /\ trace' = Touched("execute_query", o.dbcall)
             /\ ret' = DirectRet(o.exc, o.msg, o.result)
    /\ pc' = "done"
    /\ UNCHANGED <<engine, db, collections, current_collection, chat_history, call,
                   response_text, query_data, llm_invoked>>

SpecExec == ExecInit /\ [][ExecCall]_vars

\* the JSON documents generate_mongodb_query is called on
GenValues ==
    {qd \in QueryDatasUpTo(0) : qd.query_type \in {"find", Missing} /\ qd.query.t = "missing"}

GenInit ==
    /\ DirectInit("generate_mongodb_query")
    /\ current_collection = InitialCollection
    /\ response_text \in ResponsesUpTo(MaxResp)
    /\ query_data = NoQueryData

\* generate_mongodb_query(question), from response_text = response.content on
GenCall ==
    /\ pc = "call"
    /\ call.op = "generate_mongodb_query"
    /\ \E value \in GenValues :
         LET o == ExtractJson(engine, response_text, value)
         IN  /\ query_data' = o.value
             /\ ret' = DirectRet(o.exc, o.msg, NoResult)
    /\ trace' = <<"generate_mongodb_query", "llm.invoke">>
    /\ llm_invoked' = TRUE
    /\ pc' = "done"
    /\ UNCHANGED <<engine, db, collections, current_collection, chat_history, call,
                   response_text, result, dbcall>>

SpecGen == GenInit /\ [][GenCall]_vars

----------------------------------------------------------------------------
(* The "query" of the JSON document as a tree, for the two methods of      *)
(* src/test.py that walk it.  A value is a string, a dict (its items in    *)
(* insertion order), a list (its items under the key ""), a datetime or    *)
(* True.  A string is a text s, or the text s followed by the arguments    *)
(* args, separated by commas, and a closing parenthesis.                   *)

\* the deepest nesting of the queries given to _fix_date_formats
MaxFixDepth == 4

Value(t, s, args, items) == [t |-> t, s |-> s, args |-> args, items |-> items]

Text(s) == Value("str", s, <<>>, <<>>)

Item(k, v) == [key |-> k, val |-> v]

Dict(items) == Value("dict", "", <<>>, items)

List(items) == Value("list", "", <<>>, items)

IsDict(v) == v.t = "dict"

IsList(v) == v.t = "list"

\* key in v, for a dict v
HasKey(v, k) == \E i \in 1..Len(v.items) : v.items[i].key = k

\* v[key], for a dict v that has the key
Get(v, k) == v.items[CHOOSE i \in 1..Len(v.items) : v.items[i].key = k].val

\* the dicts with the keys ks, in that order, of which at most one value is
\* taken from nested and the others from leaves
DictsOver(ks, leaves, nested) ==
    IF Len(ks) = 1
    THEN {Dict(<<Item(ks[1], v)>>) : v \in leaves \cup nested}
    ELSE {Dict(<<Item(ks[1], v), Item(ks[2], w)>>) : v \in leaves \cup nested, w \in leaves}
         \cup {Dict(<<Item(ks[1], v), Item(ks[2], w)>>) : v \in leaves, w \in nested}

\* the lists of one item
ListsOver(leaves, nested) == {List(<<Item("", v)>>) : v \in leaves \cup nested}

RECURSIVE TreesUpTo(_, _, _)
\* the values nested at most depth deep, with the keys of keylists
TreesUpTo(depth, keylists, leaves) ==
    IF depth = 0
    THEN leaves
    ELSE LET nested == TreesUpTo(depth - 1, keylists, leaves)
         IN  leaves
             \cup UNION {DictsOver(ks, leaves, nested) : ks \in keylists}
             \cup ListsOver(leaves, nested)

----------------------------------------------------------------------------
(* _fix_date_formats. *)

FixKeyLists ==
    {<<"$dateFromString">>, <<"$dateToString">>, <<"$project">>, <<"dateString">>,
     <<"dateString", "format">>, <<"format", "date">>}

\* the strings of the queries: a format the LLM wrote
FixLeaves == {Text("%d/%m/%Y")}

\* new_v = v.copy(); new_v["format"] = "%Y-%m-%dT%H:%M:%S.%LZ"
WithIsoFormat(v) ==
    Dict([i \in 1..Len(v.items) |->
            IF v.items[i].key = "format"
            THEN Item("format", Text("%Y-%m-%dT%H:%M:%S.%LZ"))
            ELSE v.items[i]])

RECURSIVE _fix_date_formats(_)
\* _fix_date_formats(query)
_fix_date_formats(query) ==
    LET Fixed(k, v) ==
            IF k = "$dateFromString" /\ IsDict(v) /\ HasKey(v, "dateString")
               /\ HasKey(v, "format")
            THEN Dict(<<Item("dateString", Get(v, "dateString"))>>)
            ELSE IF k \in {"$dateToString", "$dateToParts", "$dateFromParts"}
            THEN IF IsDict(v) /\ HasKey(v, "format")
                 THEN WithIsoFormat(v)
                 ELSE _fix_date_formats(v)
            ELSE IF IsDict(v) \/ IsList(v)
            THEN _fix_date_formats(v)
            ELSE v
    IN  IF IsDict(query)
        THEN Dict([i \in 1..Len(query.items) |->
                     Item(query.items[i].key, Fixed(query.items[i].key, query.items[i].val))])
        ELSE IF IsList(query)
        THEN List([i \in 1..Len(query.items) |->
                     Item("", _fix_date_formats(query.items[i].val))])
        ELSE query

FixInit ==
    /\ DirectInit("_fix_date_formats")
    /\ engine = "test"
    /\ current_collection = InitialCollection
    /\ response_text = <<>>
    /\ query_data \in TreesUpTo(MaxFixDepth, FixKeyLists, FixLeaves)

\* query_data["query"] = self._fix_date_formats(query_data["query"])
FixCall ==
    /\ pc = "call"
    /\ call.op = "_fix_date_formats"
    /\ result' = _fix_date_formats(query_data)
    /\ ret' = Returned("", None, 0, NoEntries, <<>>)
    /\ pc' = "done"
    /\ UNCHANGED <<engine, db, collections, current_collection, chat_history, call,
                   response_text, query_data, dbcall, trace, llm_invoked>>

SpecFix == FixInit /\ [][FixCall]_vars

----------------------------------------------------------------------------
(* _handle_date_in_query, on the tree of the query.  (The operator of the  *)
(* section on execute_query is the same method on the summary of a query   *)
(* that execute_query needs: whether it is a dict, a list or a datetime.)  *)

\* the deepest nesting of the queries given to _handle_date_in_query
MaxDateDepth == 2
\* the most arguments written between "new Date(" and ")"
MaxArgs == 4

\* one argument of "new Date(...)" or "ISODate(...)": an integer literal, a
\* text YYYY-MM-DD (quoted or not), or any other text
Arg(k, v) == [k |-> k, v |-> v]

IntArg(n) == Arg("int", <<n>>)

IsoArg(y, m, d) == Arg("iso", <<y, m, d>>)

\* datetime.datetime(y, m, d)
DateTime(y, m, d) == Value("datetime", "", <<IsoArg(y, m, d)>>, <<>>)

\* datetime.datetime.now()
Now == Value("datetime", "now", <<>>, <<>>)

\* no date was returned: the try block fell through or its exception was passed
NoDate == Value("none", "", <<>>, <<>>)

IsStr(v) == v.t = "str"

\* the string "new Date(" + args + ")"
NewDateString(args) == Value("str", "new Date(", args, <<>>)

IsLeapYear(y) == y % 4 = 0 /\ (y % 100 # 0 \/ y % 400 = 0)

DaysInMonth(y, m) ==
    CASE m = 2 -> IF IsLeapYear(y) THEN 29 ELSE 28
      [] m \in {4, 6, 9, 11} -> 30
      [] OTHER -> 31

\* datetime.datetime(y, m, d) does not raise ValueError
ValidDate(y, m, d) ==
    /\ y >= 1 /\ y <= 9999
    /\ m >= 1 /\ m <= 12
    /\ d >= 1 /\ d <= DaysInMonth(y, m)

\* datetime.datetime.fromisoformat of the text made of args
FromIsoFormat(args) ==
    IF Len(args) = 1 /\ args[1].k = "iso"
       /\ ValidDate(args[1].v[1], args[1].v[2], args[1].v[3])
    THEN DateTime(args[1].v[1], args[1].v[2], args[1].v[3])
    ELSE NoDate

NewDateMonthAsWritten(args) == DateTime(args[1].v[1], args[2].v[1], args[3].v[1])

\* datetime.datetime(args[0], args[1] + 1, args[2])
NewDateOfInts(args) == DateTime(args[1].v[1], args[2].v[1] + 1, args[3].v[1])

\* the try block of the "new Date(...)" pattern
NewDate(args) ==
    IF args = <<>>
    THEN Now
    ELSE IF Len(args) >= 2
    THEN IF (\A i \in 1..Len(args) : args[i].k = "int") /\ Len(args) >= 3
            /\ ValidDate(args[1].v[1], args[2].v[1] + 1, args[3].v[1])
         THEN NewDateOfInts(args)
         ELSE NoDate
    ELSE FromIsoFormat(args)

\* the two patterns tried on a string value
DateOfString(value) ==
    IF value.s = "new Date(" THEN NewDate(value.args)
    ELSE IF value.s = "ISODate(" THEN FromIsoFormat(value.args)
    ELSE NoDate

\* the {"$date": "2023-01-01"} pattern
DateOfDateKey(key, value) ==
    IF key = "$date" /\ value.s = "" THEN FromIsoFormat(value.args) ELSE NoDate

\* query[key] = v
SetItem(query, i, v) ==
    Dict([j \in 1..Len(query.items) |->
            IF j = i THEN Item(query.items[j].key, v) ELSE query.items[j]])

\* if "$currentDate" in query: query["$currentDate"] = True
SetCurrentDate(query) ==
    Dict([j \in 1..Len(query.items) |->
            IF query.items[j].key = "$currentDate"
            THEN Item("$currentDate", Value("bool", "True", <<>>, <<>>))
            ELSE query.items[j]])

RECURSIVE HandleDateInQuery(_)
RECURSIVE HandleDateItems(_, _)

\* for key, value in list(query.items()), from the i-th item on: the first
\* string that parses ends the method with its date
HandleDateItems(query, i) ==
    IF i > Len(query.items)
    THEN SetCurrentDate(query)
    ELSE LET key == query.items[i].key
             value == query.items[i].val
         IN  IF IsDict(value) \/ IsList(value)
             THEN HandleDateItems(SetItem(query, i, HandleDateInQuery(value)), i + 1)
             ELSE IF IsStr(value) /\ DateOfDateKey(key, value) # NoDate
             THEN DateOfDateKey(key, value)
             ELSE IF IsStr(value) /\ DateOfString(value) # NoDate
             THEN DateOfString(value)
             ELSE HandleDateItems(query, i + 1)

\* _handle_date_in_query(query)
HandleDateInQuery(query) ==
    IF IsDict(query)
    THEN HandleDateItems(query, 1)
    ELSE IF IsList(query)
    THEN List([i \in 1..Len(query.items) |->
                 Item("", IF IsDict(query.items[i].val) \/ IsList(query.items[i].val)
                          THEN HandleDateInQuery(query.items[i].val)
                          ELSE query.items[i].val)])
    ELSE query

\* the integers written as arguments
ArgInts == {0, 1, 11, 12, 29, 2023, 2024}

\* the lists of up to MaxArgs arguments, each an integer or another text
ArgLists ==
    UNION {[1..k -> {IntArg(n) : n \in ArgInts} \cup {Arg("text", <<>>)}] : k \in 0..MaxArgs}

\* {"createdOn": "new Date(...)"} for every list of arguments
NewDateQueries == {Dict(<<Item("createdOn", NewDateString(args))>>) : args \in ArgLists}

\* "new Date(2025, 3, 1)", "ISODate('2025-05-01')", "2025-04-01" and "open"
DateLeaves ==
    {NewDateString(<<IntArg(2025), IntArg(3), IntArg(1)>>),
     Value("str", "ISODate(", <<IsoArg(2025, 5, 1)>>, <<>>),
     Value("str", "", <<IsoArg(2025, 4, 1)>>, <<>>),
     Text("open")}

DateKeyLists == {<<"createdOn">>, <<"$date">>, <<"$currentDate">>, <<"$gte", "$lt">>}

DateInit ==
    /\ DirectInit("_handle_date_in_query")
    /\ engine = "test"
    /\ current_collection = InitialCollection
    /\ response_text = <<>>
    /\ query_data \in NewDateQueries \cup TreesUpTo(MaxDateDepth, DateKeyLists, DateLeaves)

\* query = self._handle_date_in_query(query)
DateCall ==
    /\ pc = "call"
    /\ call.op = "_handle_date_in_query"
    /\ result' = HandleDateInQuery(query_data)
    /\ ret' = Returned("", None, 0, NoEntries, <<>>)
    /\ pc' = "done"
    /\ UNCHANGED <<engine, db, collections, current_collection, chat_history, call,
                   response_text, query_data, dbcall, trace, llm_invoked>>

SpecDate == DateInit /\ [][DateCall]_vars

----------------------------------------------------------------------------
(* MongoDBQA of src/main.py: the retrieval chain with a conversation        *)
(* history.  Construction either raises or leaves qa_chain set, so ask      *)
(* always reaches the chain.  trace is the log of what main's loop did and  *)
(* what the chain answered; query_data is what the chain was last given.    *)

\* the calls main's loop makes before the model stops
MaxOps == 4

Answers == {"answer 1", "answer 2"}

\* one turn of main's loop
Event(op, question, ok, answer) ==
    [op |-> op, question |-> question, ok |-> ok, answer |-> answer]

\* {"question": question, "chat_history": self.chat_history}
ChainInput(question, history) == [question |-> question, chat_history |-> history]

QAInit ==
    /\ engine = "main"
    /\ db = FullDb
    /\ collections = <<>>
    /\ current_collection = InitialCollection
    /\ chat_history = <<>>
    /\ pc = "idle"
    /\ call = NoCall
    /\ response_text = <<>>
    /\ query_data = ChainInput(<<>>, <<>>)
    /\ result = NoResult
    /\ dbcall = NoDbCall
    /\ trace = <<>>
    /\ ret = NoRet
    /\ llm_invoked = FALSE

AppendFirst(history, question, answer) == <<(<<question, answer>>)>> \o history

\* self.chat_history.append((question, response["answer"]))
AppendPair(history, question, answer) == Append(history, <<question, answer>>)

\* MongoDBQA.ask(question): the chain answers
QAAskAnswered ==
    /\ Len(trace) < MaxOps
    /\ \E question \in Questions, answer \in Answers :
         /\ call' = [op |-> "ask", name |-> None, question |-> question]
         /\ query_data' = ChainInput(question, chat_history)
         /\ chat_history' = AppendPair(chat_history, question, answer)
         /\ ret' = Returned(answer, None, 0, NoEntries, <<>>)
         /\ trace' = Append(trace, Event("ask", question, TRUE, answer))
    /\ llm_invoked' = TRUE
    /\ UNCHANGED <<engine, db, collections, current_collection, pc, response_text,
                   result, dbcall>>

\* MongoDBQA.ask(question): the chain raises, and main prints the error
QAAskRaised ==
    /\ Len(trace) < MaxOps
    /\ \E question \in Questions :
         /\ call' = [op |-> "ask", name |-> None, question |-> question]
         /\ query_data' = ChainInput(question, chat_history)
         /\ trace' = Append(trace, Event("ask", question, FALSE, ""))
    /\ ret' = Raised("Exception", "the chain failed", None)
    /\ llm_invoked' = TRUE
    /\ UNCHANGED <<engine, db, collections, current_collection, chat_history, pc,
                   response_text, result, dbcall>>

\* MongoDBQA.reset_chat_history()
QAReset ==
    /\ Len(trace) < MaxOps
    /\ call' = [op |-> "reset", name |-> None, question |-> <<>>]
    /\ chat_history' = <<>>
    /\ ret' = Returned("", None, 0, NoEntries, <<>>)
    /\ trace' = Append(trace, Event("reset", <<>>, TRUE, ""))
    /\ UNCHANGED <<engine, db, collections, current_collection, pc, response_text,
                   query_data, result, dbcall, llm_invoked>>

QANext == QAAskAnswered \/ QAAskRaised \/ QAReset

SpecQA == QAInit /\ [][QANext]_vars

----------------------------------------------------------------------------
(* The engine driven through ask. *)

Next ==
    \/ \E name \in Names : UseCollection(name)
    \/ ListCollections
    \/ ShowSchema
    \/ Stats
    \/ AskNoCollection
    \/ AskQuestion
    \/ ProcessAnalytical
    \/ Generate
    \/ Execute
    \/ Format
    \/ DbWrite

Spec == Init /\ [][Next]_vars

----------------------------------------------------------------------------
(* The claims. *)

PipelineStages == {"generate_mongodb_query", "execute_query", "_format_result"}

IsPipelineStage(x) == x \in PipelineStages

\* the pipeline stages the call has started, in order
Started == SelectSeq(trace, IsPipelineStage)

GenerationErrors ==
    {"Error: Generated invalid JSON",
     "Error: Could not extract valid JSON from response",
     "Error: the LLM call failed",
     "Error: argument is not iterable",
     "Error: indices must be integers"}

ExecutionErrors ==
    {"Error: object has no attribute 'get'",
     "Error: object has no attribute 'lower'",
     "Error: Error executing query: filter must be an instance of dict",
     "Error: Error executing query: object has no attribute 'append'",
     "Error: Error executing query: object has no attribute 'get'",
     "Error: Error executing query: 'field' is required for distinct queries",
     "Error: Error executing query: Unsupported query type",
     "Error: Error executing query: database error"}

\* a question asked while a collection is selected
InQuestion == call.op = "question" /\ current_collection # None

\* C1: a question asked with a collection selected and not routed to trend
\* analysis starts generate_mongodb_query, execute_query and _format_result in
\* that order, each at most once; execute_query starts only after a generation
\* that succeeded, _format_result only after an execution that succeeded; a
\* call in which all three ran returns the formatted text, one in which
\* generation failed never started execute_query, one in which execution
\* failed never started _format_result.
C1_StageOrder ==
    (InQuestion /\ ~(engine = "test" /\ TakesTrendBranch)) =>
        /\ Started \in {<<>>,
                        <<"generate_mongodb_query">>,
                        <<"generate_mongodb_query", "execute_query">>,
                        <<"generate_mongodb_query", "execute_query", "_format_result">>}
        /\ pc = "execute" => Started = <<"generate_mongodb_query">> /\ ret = NoRet
        /\ pc = "format" =>
              Started = <<"generate_mongodb_query", "execute_query">> /\ ret = NoRet
        /\ (pc = "idle" /\ ret.kind = "return" /\ ret.exc = "") =>
              /\ Started = <<"generate_mongodb_query", "execute_query", "_format_result">>
              /\ ret.msg = "Found results"
        /\ (pc = "idle" /\ ret.msg \in GenerationErrors) =>
              Started = <<"generate_mongodb_query">>
        /\ (pc = "idle" /\ ret.msg \in ExecutionErrors) =>
              Started = <<"generate_mongodb_query", "execute_query">>
        /\ (pc = "idle" /\ ret.kind # "none") =>
              ret.msg \in {"Found results"} \cup GenerationErrors \cup ExecutionErrors

C1_Witness ==
    /\ InQuestion
    /\ pc = "idle"
    /\ ret.msg = "Found results"
    /\ trace = <<"generate_mongodb_query", "llm.invoke", "execute_query", "db.find",
                 "_format_result">>

\* C2: from the moment a question is asked with a collection selected, ask
\* raises nothing: whatever a stage raised (in generation or execution) comes
\* back as the string "Error: <message>", and no step of the call changes
\* current_collection or the schema cache.
C2_NeverRaises ==
    [][(call'.op = "question" /\ current_collection' # None) =>
          /\ ret'.kind # "raise"
          /\ ret'.exc # "" =>
                /\ ret'.kind = "return"
                /\ ret'.msg \in GenerationErrors \cup ExecutionErrors
          /\ ret'.msg \in GenerationErrors \cup ExecutionErrors =>
                ret'.exc # ""
          /\ UNCHANGED <<current_collection, collections>>]_vars

C2_Witness ==
    /\ InQuestion
    /\ pc = "idle"
    /\ ret.kind = "return"
    /\ ret.exc = "RuntimeError"
    /\ ret.msg = "Error: Error executing query: database error"

\* C3: after construction no collection is current although "portcalls" is in
\* the cache; a question asked while none is current returns the request to
\* select one and starts no stage, no LLM call and no database call; the LLM
\* has never been invoked while no collection is current.
C3_SelectFirst ==
    /\ call.op = "none" => current_collection = None /\ InitialCollection \in Cached
    /\ (call.op = "question" /\ current_collection = None) =>
          /\ pc = "idle"
          /\ ret.kind = "return"
          /\ ret.msg = "Please select a collection first using 'use collection [name]'"
          /\ trace = <<>>
    /\ current_collection = None => ~llm_invoked
    /\ current_collection # None => current_collection \in Cached

C3_Witness ==
    /\ call.op = "question"
    /\ current_collection = None
    /\ InitialCollection \in Cached
    /\ ret.msg = "Please select a collection first using 'use collection [name]'"

\* a step of ask("use collection <name>")
UseStep == pc = "idle" /\ pc' = "idle" /\ call'.op = "use" /\ db' = db

\* C4: a step changes current_collection or the schema cache only if it is a
\* step of "use collection"; the steps of list collections, show schema, stats
\* and of a question leave current_collection, the cache and chat_history
\* unchanged, and chat_history stays as constructed.
C4_OnlyUseChanges ==
    [][/\ call'.op # "use" => UNCHANGED <<current_collection, collections, chat_history>>
       /\ <<current_collection, collections>>' # <<current_collection, collections>> =>
             UseStep
       /\ chat_history' = <<>>]_vars

C4_Witness ==
    /\ call.op = "stats"
    /\ current_collection = "vessels"
    /\ collections["vessels"].total_documents # count_documents("vessels")
    /\ ret.count = count_documents("vessels")
    /\ chat_history = <<>>

\* C5: "list collections" lists every collection of the database: each name
\* db.list_collection_names() holds has an entry in the list returned.  (The
\* code lists the cache, which construction fills with "portcalls" alone.)
C5_AllCollectionsListed ==
    (pc = "idle" /\ call.op = "list") =>
        \A n \in list_collection_names : \E e \in ret.entries : e[1] = n

\* C6: a step of "use collection <name>": when name is cached or in the
\* database it becomes current, it is analysed exactly when it was not
\* cached, and the message carries the count the cache holds; otherwise
\* ValueError leaves ask (raised, not returned as an "Error:" string) and
\* current_collection and the cache keep their values.
C6_SetCurrentCollection ==
    [][UseStep =>
          LET name == call'.name
          IN  IF name \in DOMAIN collections \/ db[name].exists
              THEN /\ current_collection' = name
                   /\ name \in DOMAIN collections'
                   /\ name \in DOMAIN collections => collections' = collections
                   /\ name \notin DOMAIN collections =>
                         /\ collections'[name].total_documents = db[name].count
                         /\ \A n \in DOMAIN collections : collections'[n] = collections[n]
                         /\ DOMAIN collections' = DOMAIN collections \cup {name}
                   /\ ret'.kind = "return"
                   /\ ret'.msg = "Current collection set to"
                   /\ ret'.name = name
                   /\ ret'.count = collections'[name].total_documents
              ELSE /\ ret'.kind = "raise"
                   /\ ret'.exc = "ValueError"
                   /\ ret'.name = name
                   /\ UNCHANGED <<current_collection, collections>>]_vars

C6_Witness ==
    /\ pc = "idle"
    /\ call.op = "use"
    /\ call.name = "ghost"
    /\ ret.kind = "raise"
    /\ ret.exc = "ValueError"
    /\ current_collection = "vessels"
    /\ collections["vessels"].total_documents # count_documents("vessels")

\* a call of execute_query that has returned or raised
ExecDone == pc = "done" /\ call.op = "execute_query"

\* C7: with a collection selected, whatever execute_query raises for a
\* query_data dict is a RuntimeError "Error executing query: ...".  (A
\* query_type that is no string raises AttributeError before the try block.)
C7_FailuresAreRuntimeErrors ==
    (ExecDone /\ current_collection # None /\ query_data.kind = "dict"
        /\ ret.kind = "raise") =>
        /\ ret.exc = "RuntimeError"
        /\ ("Error: " \o ret.msg) \in ExecutionErrors

\* C8: a find that returned holds at most 50 documents, the first 50 when the
\* query matches more, and its count is the length of its results.
C8_FindLimited ==
    (ExecDone /\ dbcall.op = "find" /\ ret.kind = "return") =>
        /\ Len(result.results) <= 50
        /\ Len(result.results) = Min(dbcall.matched, 50)
        /\ result.count = Len(result.results)
        /\ dbcall.limit = 50

C8_Witness ==
    /\ ExecDone
    /\ dbcall.op = "find"
    /\ ret.kind = "return"
    /\ dbcall.matched > 50
    /\ result.count = 50

\* a stage that is a dict with a "$limit" that is not null
C9_IsLimitStage(s) == s.dict /\ s.op = "$limit" /\ s.val # "None"

C9_Limits(p) == {i \in 1..Len(p) : C9_IsLimitStage(p[i])}

\* C9: for every pipeline sent to collection.aggregate, with p the pipeline
\* as the aggregate branch received it: when p has no stage that is a dict
\* with a non-null "$limit", the pipeline sent is p followed by the one stage
\* {"$limit": 50}; when p has one, the pipeline sent is p; either way the
\* pipeline sent holds a $limit stage.
C9_AggregateLimit ==
    (ExecDone /\ dbcall.op = "aggregate") =>
        LET p == QueryOf(engine, query_data).stages
            sent == dbcall.pipeline
        IN  /\ C9_Limits(p) = {} =>
                  /\ Len(sent) = Len(p) + 1
                  /\ SubSeq(sent, 1, Len(p)) = p
                  /\ sent[Len(sent)] = Stage(TRUE, "$limit", "50")
                  /\ C9_Limits(sent) = {Len(sent)}
            /\ C9_Limits(p) # {} => sent = p
            /\ C9_Limits(sent) # {}

C9_Witness ==
    /\ ExecDone
    /\ dbcall.op = "aggregate"
    /\ query_data.query.stages = <<MatchStage, LimitNull>>
    /\ dbcall.pipeline = <<MatchStage, LimitNull, Limit50>>

\* a call of generate_mongodb_query that has returned or raised
GenDone == pc = "done" /\ call.op = "generate_mongodb_query"

C10_Fences == {i \in 1..Len(response_text) : response_text[i] = Fence}

C10_Fenced == \E i, j \in C10_Fences : i < j

\* what stands between the first two fences, the word json right after the
\* opening fence left out
C10_FirstBlock ==
    LET i == CHOOSE x \in C10_Fences : \A y \in C10_Fences : x <= y
        j == CHOOSE x \in C10_Fences \ {i} : \A y \in C10_Fences \ {i} : x <= y
        b == SubSeq(response_text, i + 1, j - 1)
    IN  IF b # <<>> /\ b[1] = JsonTag THEN Tail(b) ELSE b

\* valid JSON: one document and nothing but whitespace around it
C10_IsJson(s) ==
    \E i \in 1..Len(s) : s[i] = JsonDoc /\ \A k \in 1..Len(s) : k # i => s[k] = Space

\* C10: when the response holds a fenced block, the first block decides: if
\* its content is no JSON, ValueError "Generated invalid JSON" is raised even
\* when the whole text or a later block is JSON, and if it is JSON neither
\* ValueError is raised; when the response holds no fenced block the whole
\* text is parsed and, if that is no JSON, ValueError "Could not extract
\* valid JSON from response" is raised.
C10_JsonExtraction ==
    GenDone =>
        /\ (C10_Fenced /\ ~C10_IsJson(C10_FirstBlock)) =>
              /\ ret.kind = "raise"
              /\ ret.exc = "ValueError"
              /\ ret.msg = "Generated invalid JSON"
        /\ (C10_Fenced /\ C10_IsJson(C10_FirstBlock)) =>
              /\ ret.exc # "ValueError"
              /\ ret.kind = "return" => query_data # NoQueryData
        /\ (~C10_Fenced /\ ~C10_IsJson(response_text)) =>
              /\ ret.kind = "raise"
              /\ ret.exc = "ValueError"
              /\ ret.msg = "Could not extract valid JSON from response"
        /\ ~C10_Fenced => ret.msg # "Generated invalid JSON"

C10_Witness ==
    /\ GenDone
    /\ response_text = <<Fence, Prose, Fence, JsonDoc, Fence>>
    /\ ret.kind = "raise"
    /\ ret.msg = "Generated invalid JSON"

FixDone == pc = "done" /\ call.op = "_fix_date_formats"

RECURSIVE FormatLeft(_)
\* some $dateFromString of v, at any depth, has a dateString and a format
FormatLeft(v) ==
    /\ IsDict(v) \/ IsList(v)
    /\ \E i \in 1..Len(v.items) :
         \/ /\ v.items[i].key = "$dateFromString"
            /\ IsDict(v.items[i].val)
            /\ HasKey(v.items[i].val, "dateString")
            /\ HasKey(v.items[i].val, "format")
         \/ FormatLeft(v.items[i].val)

\* C11: after _fix_date_formats has been applied to a query, no
\* $dateFromString operator of the result, at any nesting depth, still carries
\* a format next to its dateString.
C11_NoFormatLeft == FixDone => ~FormatLeft(result)

DateDone == pc = "done" /\ call.op = "_handle_date_in_query"

RECURSIVE Converted(_)
\* v with every string value of a dict that parses as "new Date(...)" or
\* "ISODate(...)" replaced by its date, and nothing else changed
Converted(v) ==
    IF IsDict(v)
    THEN Dict([i \in 1..Len(v.items) |-> Item(v.items[i].key, Converted(v.items[i].val))])
    ELSE IF IsList(v)
    THEN List([i \in 1..Len(v.items) |->
                 Item("", IF IsStr(v.items[i].val)
                          THEN v.items[i].val
                          ELSE Converted(v.items[i].val))])
    ELSE IF IsStr(v) /\ DateOfString(v) # NoDate
    THEN DateOfString(v)
    ELSE v

RECURSIVE HasOwnHandling(_)
\* some dict of v has a key the method handles on its own ($date, $currentDate)
HasOwnHandling(v) ==
    /\ IsDict(v) \/ IsList(v)
    /\ \E i \in 1..Len(v.items) :
         \/ v.items[i].key \in {"$date", "$currentDate"}
         \/ HasOwnHandling(v.items[i].val)

\* C12: _handle_date_in_query replaces every string value 'new Date(...)' or
\* 'ISODate(...)' that parses by its date object under the same key and keeps
\* all other keys and values of the enclosing dict unchanged.
C12_DatesConverted ==
    (DateDone /\ IsDict(query_data) /\ ~HasOwnHandling(query_data)) =>
        result = Converted(query_data)

RECURSIVE DatesIn(_)
\* the date objects v holds, at any depth
DatesIn(v) ==
    IF v.t = "datetime"
    THEN {v}
    ELSE UNION {DatesIn(v.items[i].val) : i \in 1..Len(v.items)}

NewDateQuery(y, m, d) ==
    Dict(<<Item("createdOn", NewDateString(<<IntArg(y), IntArg(m), IntArg(d)>>))>>)

\* C16: for the string 'new Date(...)' under a key, _handle_date_in_query
\* yields the date (y, m + 1, d) when three or more integer arguments are
\* written and that date exists, the current time for 'new Date()', and the
\* query with the string unchanged when the comma-separated arguments are
\* fewer than three, are not all integers or name no date (such as m = 12).
C16_NewDate ==
    (DateDone /\ query_data \in NewDateQueries) =>
        LET args == query_data.items[1].val.args
            y == args[1].v[1]
            m == args[2].v[1]
            d == args[3].v[1]
            dated == /\ Len(args) >= 3
                     /\ \A i \in 1..Len(args) : args[i].k = "int"
                     /\ y \in 1..9999 /\ m + 1 \in 1..12
                     /\ d \in 1..DaysInMonth(y, m + 1)
        IN  /\ args = <<>> => DatesIn(result) = {Now}
            /\ dated => DatesIn(result) = {DateTime(y, m + 1, d)}
            /\ (Len(args) >= 2 /\ ~dated) => result = query_data
            /\ query_data = NewDateQuery(2024, 0, 1) => DatesIn(result) = {DateTime(2024, 1, 1)}
            /\ query_data = NewDateQuery(2024, 11, 29) => DatesIn(result) = {DateTime(2024, 12, 29)}
            /\ query_data = NewDateQuery(2024, 1, 29) => DatesIn(result) = {DateTime(2024, 2, 29)}
            /\ query_data = NewDateQuery(2023, 1, 29) => result = query_data
            /\ query_data = NewDateQuery(2024, 12, 1) => result = query_data

\* new Date(2024, 1, 29) has become the 29th of February 2024
C16_Witness ==
    /\ DateDone
    /\ query_data = NewDateQuery(2024, 1, 29)
    /\ DatesIn(result) = {DateTime(2024, 2, 29)}

\* the running or last question of the extended engine has a trend keyword in
\* it, whatever its case, and the cache holds a date field for the collection
TrendAsked ==
    /\ \E keyword \in trend_keywords :
         \E i \in 1..Len(call.question) :
            /\ i + Len(keyword) - 1 <= Len(call.question)
            /\ \A j \in 1..Len(keyword) : LowerChar(call.question[i + j - 1]) = keyword[j]
    /\ collections[current_collection].date_fields

TrendReport == "Trend analysis of"

\* C13: in the extended engine, a question asked with a collection selected
\* gets the trend report exactly when it contains a trend keyword, in any
\* case, as a substring and the cache holds a date field for the current
\* collection; that call ends after process_analytical_question without
\* invoking the LLM; any other question goes on to generate_mongodb_query,
\* which invokes it.
C13_TrendFirst ==
    (engine = "test" /\ InQuestion) =>
        /\ (pc = "idle" /\ TrendAsked) =>
              /\ ret.kind = "return" /\ ret.msg = TrendReport
              /\ ret.name = current_collection
              /\ trace = <<"process_analytical_question">>
        /\ (pc = "idle" /\ ~TrendAsked) =>
              /\ ret.msg # TrendReport
              /\ SubSeq(trace, 1, 3) =
                    <<"process_analytical_question", "generate_mongodb_query", "llm.invoke">>
        /\ pc \in {"generate", "execute", "format"} =>
              /\ ~TrendAsked
              /\ trace[1] = "process_analytical_question"
        /\ call.question = OverTime => (TrendAsked <=> collections[current_collection].date_fields)
        /\ call.question = TRENDS => (TrendAsked <=> collections[current_collection].date_fields)
        /\ call.question = Overtime => ~TrendAsked

\* "Over Time" asked of a collection with a date field: the report, no LLM call
C13_Witness ==
    /\ engine = "test"
    /\ InQuestion
    /\ pc = "idle"
    /\ call.question = OverTime
    /\ ret.msg = TrendReport
    /\ ~llm_invoked

RECURSIVE PairsSinceReset(_)
\* the (question, answer) pairs of the asks the chain answered after the last
\* reset of the log, in the order of the log
PairsSinceReset(log) ==
    IF log = <<>>
    THEN <<>>
    ELSE LET e == log[Len(log)]
             before == SubSeq(log, 1, Len(log) - 1)
         IN  IF e.op = "reset" THEN <<>>
             ELSE IF e.ok THEN PairsSinceReset(before) \o <<(<<e.question, e.answer>>)>>
             ELSE PairsSinceReset(before)

\* C14: after any sequence of asks and resets chat_history is the ordered
\* list of the question/answer pairs of the answered asks since the last
\* reset; every ask gave the chain the history as it was before the call; an
\* answered ask returned the answer it appended as the last pair; an ask whose
\* chain raised left the history as it was.
C14_ChatHistory ==
    engine = "main" =>
        /\ chat_history = PairsSinceReset(trace)
        /\ (trace # <<>> /\ trace[Len(trace)].op = "ask") =>
              LET e == trace[Len(trace)]
                  before == PairsSinceReset(SubSeq(trace, 1, Len(trace) - 1))
              IN  /\ query_data = ChainInput(e.question, before)
                  /\ e.ok =>
                        /\ ret.kind = "return" /\ ret.msg = e.answer
                        /\ Len(chat_history) = Len(before) + 1
                        /\ chat_history[Len(chat_history)] = <<e.question, e.answer>>
                  /\ ~e.ok => ret.kind = "raise" /\ chat_history = before
        /\ (trace # <<>> /\ trace[Len(trace)].op = "reset") => chat_history = <<>>

\* two answered asks around one that raised: two pairs, in order
C14_Witness ==
    /\ engine = "main"
    /\ Len(trace) = 3
    /\ trace[1].ok /\ ~trace[2].ok /\ trace[3].ok
    /\ trace[1].op = "ask" /\ trace[3].op = "ask"
    /\ trace[1].question # trace[3].question
    /\ chat_history = <<(<<trace[1].question, trace[1].answer>>),
                        (<<trace[3].question, trace[3].answer>>)>>

\* C15: whatever the response text and the JSON value in it,
\* generate_mongodb_query returns the parsed value or raises ValueError, also
\* when the value is a number, a string, null or an array.
C15_OnlyValueError ==
    GenDone =>
        /\ ret.kind = "raise" => ret.exc = "ValueError"
        /\ ret.kind = "return" => query_data # NoQueryData
        /\ ret.kind \in {"raise", "return"}

\* C17: no step changes or removes an entry the schema cache holds, so the
\* set of cached names only grows; "use collection <name>" for a cached name
\* calls nothing of the database and reports the count of the entry, which is
\* the count taken when the collection was first analysed, whatever the
\* collection holds by now.
C17_CacheNeverRefreshed ==
    [][/\ \A n \in DOMAIN collections :
             /\ n \in DOMAIN collections'
             /\ collections'[n] = collections[n]
       /\ (UseStep /\ call'.name \in DOMAIN collections) =>
             /\ trace' = <<"set_current_collection">>
             /\ ret'.kind = "return"
             /\ ret'.count = collections[call'.name].total_documents]_vars

\* "portcalls", analysed at construction when it was empty, is selected after
\* documents were written to it: no database call, and the count reported is 0
C17_Witness ==
    /\ pc = "idle"
    /\ call.op = "use"
    /\ call.name = InitialCollection
    /\ trace = <<"set_current_collection">>
    /\ ret.count = 0
    /\ count_documents(InitialCollection) = FindLimit + MaxExtra

====
